---- MODULE Spec2Model ----
(***************************************************************************)
(* Model of src/main.py: the FastAPI service that stores uploaded PDFs,    *)
(* extracts their text, asks the completion service for an analysis and    *)
(* persists the result in the "uploads" relation.                          *)
(*                                                                         *)
(* The handlers are coroutines run by one event loop.  A handler runs      *)
(* without interleaving until it awaits; the only await in the file is     *)
(* "await file.read()" in upload_pdf.  The variable "running" names the    *)
(* request that holds the loop.                                            *)
(*                                                                         *)
(* Strings whose characters matter (file names, texts, JSON) are           *)
(* sequences of one-character strings.                                     *)
(***************************************************************************)
EXTENDS Integers, Sequences, FiniteSets, TLC

\* ------------------------------------------------------------------ bounds
MaxReq == 2
MaxClock == 1

Req == 1..MaxReq

\* ------------------------------------------------------- program constants
minconn == 1
maxconn == 5
\* datetime.now() has a finer resolution than the "%S" field strftime keeps
TicksPerSec == 2

UPLOAD_DIR == <<"u", "p", "l", "o", "a", "d", "s">>

\* ---------------------------------------------------------------- inputs
FileNames ==
  { <<"a", ".", "P", "d", "F">>,
    <<"n", "p", "d", "f">>,
    <<"n", ".", "t", "x", "t">> }

\* an uploaded byte stream: whether fitz can open it, and its pages' texts
PdfInputs ==
  { [valid |-> FALSE, pages |-> << >>],
    [valid |-> TRUE,  pages |-> << <<"H", "i">>, <<"W">> >>] }

NoPdf == [valid |-> FALSE, pages |-> << >>]

\* the text the completion service answers with: a plain character and the
\* two characters JSON escapes
AnalysisTexts ==
  { <<"O", "\"", "\\">> }

DocIds == 1..MaxReq

\* ------------------------------------------------------- string functions
RECURSIVE Concat(_)
Concat(ss) == IF ss = << >> THEN << >> ELSE Head(ss) \o Concat(Tail(ss))

LowerChar(c) ==
  CASE c = "A" -> "a"
    [] c = "B" -> "b"
    [] c = "D" -> "d"
    [] c = "F" -> "f"
    [] c = "P" -> "p"
    [] OTHER -> c

\* str.lower()
Lower(s) == [i \in 1..Len(s) |-> LowerChar(s[i])]

\* str.endswith(suffix)
EndsWith(s, suffix) ==
  /\ Len(s) >= Len(suffix)
  /\ SubSeq(s, Len(s) - Len(suffix) + 1, Len(s)) = suffix

\* file.filename.lower().endswith('.pdf')
IsPdf(name) == EndsWith(Lower(name), <<".", "p", "d", "f">>)

Digit(n) ==
  CASE n = 0 -> "0" [] n = 1 -> "1" [] n = 2 -> "2" [] n = 3 -> "3"
    [] n = 4 -> "4" [] n = 5 -> "5" [] n = 6 -> "6" [] n = 7 -> "7"
    [] n = 8 -> "8" [] n = 9 -> "9"

\* datetime.now().strftime("%Y%m%d_%H%M%S"): the instant t, counted in
\* ticks, is cut to whole seconds
Strftime(t) ==
  LET s == t \div TicksPerSec
  IN  <<"2", "0", "2", "4", "0", "1", "0", "1", "_", "0", "0", "0", "0">>
        \o <<Digit((s \div 10) % 10), Digit(s % 10)>>

\* f"{timestamp}_{file.filename}"
StoredName(ts, name) == ts \o <<"_">> \o name

\* os.path.join(UPLOAD_DIR, filename)
PathJoin(dir, name) == dir \o <<"/">> \o name

\* extract_text_from_pdf: text += page.get_text() + "\n" for each page
ExtractText(pages) ==
  Concat([i \in 1..Len(pages) |-> pages[i] \o <<"\n">>])

\* ------------------------------------------------------------------ JSON
\* json.dumps escapes the quote and the backslash of a string
JsonEscapeChar(c) ==
  IF c = "\"" THEN <<"\\", "\"">>
  ELSE IF c = "\\" THEN <<"\\", "\\">>
  ELSE <<c>>

JsonEscape(s) == Concat([i \in 1..Len(s) |-> JsonEscapeChar(s[i])])

JsonPrefix ==
  <<"{", "\"", "a", "n", "a", "l", "y", "s", "i", "s", "\"", ":", " ", "\"">>

JsonSuffix == <<"\"", "}">>

JsonDumpsTwice(analysis) ==
  JsonPrefix \o JsonEscape(JsonEscape(analysis)) \o JsonSuffix

\* json.dumps({"analysis": analysis})
JsonDumps(analysis) == JsonPrefix \o JsonEscape(analysis) \o JsonSuffix

RECURSIVE JsonUnescape(_)
JsonUnescape(s) ==
  IF s = << >> THEN << >>
  ELSE IF Head(s) = "\\" /\ Len(s) >= 2
       THEN <<s[2]>> \o JsonUnescape(SubSeq(s, 3, Len(s)))
       ELSE <<Head(s)>> \o JsonUnescape(Tail(s))

\* the string literal of a JSON text ends at the first unescaped quote
RECURSIVE LiteralEnd(_, _)
LiteralEnd(s, i) ==
  IF i > Len(s) THEN 0
  ELSE IF s[i] = "\\" THEN LiteralEnd(s, i + 2)
  ELSE IF s[i] = "\"" THEN i
  ELSE LiteralEnd(s, i + 1)

\* %s::jsonb : the server parses the text; a malformed text is refused
JsonbValid(j) ==
  /\ Len(j) >= Len(JsonPrefix) + Len(JsonSuffix)
  /\ SubSeq(j, 1, Len(JsonPrefix)) = JsonPrefix
  /\ LiteralEnd(j, Len(JsonPrefix) + 1) = Len(j) - 1
  /\ j[Len(j)] = "}"

\* the object the jsonb column holds, as RealDictCursor hands it back
JsonbParse(j) ==
  [analysis |-> JsonUnescape(SubSeq(j, Len(JsonPrefix) + 1, Len(j) - 2))]


\* ----------------------------------------------------------------- state
VARIABLES
  env,       \* os.environ: which of the two credentials are set
  boot,      \* position of the module-level start-up code
  clock,     \* the wall clock, in ticks
  running,   \* the request that holds the event loop, 0 when it is free
  pc,        \* position of every request's handler
  loc,       \* the local variables of every request's handler
  resp,      \* the response the client of every request observes
  pool,      \* db_pool: the idle connections
  used,      \* db_pool: the number of connections checked out
  schema,    \* whether the uploads relation exists
  nextId,    \* the SERIAL sequence of uploads.id
  rows,      \* the committed rows of uploads
  files,     \* the content area: path -> the bytes written there
  openDocs,  \* the number of fitz documents opened and not closed
  log        \* history: the steps every handler took (0 is start-up)

vars ==
  <<env, boot, clock, running, pc, loc, resp, pool, used, schema, nextId,
    rows, files, openDocs, log>>

NewConn == [pending |-> << >>]

NoObject == [analysis |-> << >>]

NoDoc ==
  [id |-> 0, filename |-> << >>, extracted_text |-> << >>,
   asop_analysis |-> NoObject, created_at |-> 0]

NoLoc ==
  [kind |-> "none", name |-> << >>, doc_id |-> 0,
   timestamp |-> << >>, filename |-> << >>, file_path |-> << >>,
   contents |-> NoPdf, text |-> << >>, analysis |-> << >>,
   upload_id |-> 0, hasConn |-> FALSE, conn |-> NewConn,
   rowsBefore |-> {}]

NoBody ==
  [message |-> "", id |-> 0, filename |-> << >>, path |-> << >>,
   extracted_text |-> << >>, asop_analysis |-> << >>,
   document |-> NoDoc, documents |-> << >>,
   analysis |-> << >>, health |-> ""]

NoResp ==
  [kind |-> "none", name |-> << >>, doc_id |-> 0,
   status |-> 0, raised |-> 0, fail |-> "", handled |-> TRUE,
   saved |-> << >>, body |-> NoBody]

\* What an earlier run of the service may have left: one row of uploads and
\* the file saved for it.  The relation and the content area outlive the
\* process; "by" names the request that inserted a row, 0 for that run.
PriorName ==
  <<"2", "0", "2", "3", "1", "2", "3", "1", "_", "2", "3", "5", "9", "5", "9",
    "_", "a", ".", "P", "d", "F">>

PriorPdf == [valid |-> TRUE, pages |-> << <<"W">> >>]

PriorRow ==
  [id |-> 1,
   filename |-> PriorName,
   extracted_text |-> ExtractText(PriorPdf.pages),
   asop_analysis |-> [analysis |-> <<"O", "K">>],
   created_at |-> 0,
   by |-> 0]

\* The module has not run yet.  The store is empty or holds the earlier row;
\* the clock stands at an instant after that row's created_at.
Init ==
  /\ env \in [DATABASE_URL : BOOLEAN, OPENAI_API_KEY : BOOLEAN]
  /\ boot = "env_db"
  /\ clock = 1
  /\ running = 0
  /\ pc = [r \in Req |-> "new"]
  /\ loc = [r \in Req |-> NoLoc]
  /\ resp = [r \in Req |-> NoResp]
  /\ pool = << >>
  /\ used = 0
  /\ rows \in {{}, {PriorRow}}
  /\ schema = (rows # {})
  /\ nextId = Cardinality(rows) + 1
  /\ files = [p \in {PathJoin(UPLOAD_DIR, row.filename) : row \in rows}
                |-> PriorPdf]
  /\ openDocs = 0
  /\ log = [r \in 0..MaxReq |-> << >>]

Ev(r, events) == log' = [log EXCEPT ![r] = @ \o events]

\* ------------------------------------------------------- connection pool
\* SimpleConnectionPool.putconn: a connection that is handed back inside a
\* transaction is rolled back; it is kept while fewer than minconn are idle
PutConnKeepTxn(c) ==
  /\ used' = used - 1
  /\ pool' = IF Len(pool) < minconn THEN Append(pool, c) ELSE pool

\* release_db_connection(conn)
PutConn(c) ==
  /\ used' = used - 1
  /\ pool' = IF Len(pool) < minconn THEN Append(pool, NewConn) ELSE pool

\* get_db_connection(): the connection it returns, when it returns one.
\* An idle connection is popped; otherwise a new one is opened, unless
\* maxconn are out (PoolError) or the server refuses (OperationalError).
GetConnMayFail == pool = << >>

GetConnMaySucceed == pool # << >> \/ used < maxconn

GetConnResult == IF pool # << >> THEN pool[Len(pool)] ELSE NewConn

GetConnEffect ==
  /\ used' = used + 1
  /\ pool' = IF pool # << >> THEN SubSeq(pool, 1, Len(pool) - 1) ELSE pool

\* ---------------------------------------------------------------- start-up
\* DATABASE_URL = os.environ.get('DATABASE_URL'); RuntimeError when unset
BootDatabaseUrl ==
  /\ boot = "env_db"
  /\ boot' = IF env.DATABASE_URL THEN "pool" ELSE "crashed"
  /\ UNCHANGED <<openDocs, env, clock, running, pc, loc, resp, pool, used, schema,
                 nextId, rows, files, log>>

\* db_pool = pool.SimpleConnectionPool(1, 5, dsn=DATABASE_URL)
BootPool ==
  /\ boot = "pool"
  /\ \E ok \in BOOLEAN :
       IF ok
       THEN /\ pool' = [i \in 1..minconn |-> NewConn]
            /\ boot' = "init_db"
       ELSE /\ pool' = pool
            /\ boot' = "crashed"
  /\ UNCHANGED <<openDocs, env, clock, running, pc, loc, resp, used, schema, nextId,
                 rows, files, log>>

\* init_db(): conn = get_db_connection().  Every exception leaves init_db
\* as HTTPException, which ends the import.
InitDbConnect ==
  /\ boot = "init_db"
  /\ \E ok \in BOOLEAN :
       IF ok
       THEN /\ GetConnMaySucceed
            /\ GetConnEffect
            /\ boot' = "init_db_conn"
            /\ Ev(0, <<"checkout">>)
       ELSE /\ GetConnMayFail
            /\ boot' = "crashed"
            /\ Ev(0, <<"getconn_failed">>)
            /\ UNCHANGED <<pool, used>>
  /\ UNCHANGED <<openDocs, env, clock, running, pc, loc, resp, schema, nextId, rows,
                 files>>

DropAndCreateTable(rs) == {}

\* CREATE TABLE IF NOT EXISTS uploads (...): the rows of the relation after
\* the statement; a relation that exists is left as it is
CreateTableIfNotExists(rs) == rs

\* init_db(): the cursor, CREATE TABLE IF NOT EXISTS, the commit, and the
\* finally clause that releases the connection
InitDbCreate ==
  /\ boot = "init_db_conn"
  /\ \E outcome \in {"ok", "cursor", "execute"} :
       CASE outcome = "ok" ->
              /\ schema' = TRUE
              /\ rows' = CreateTableIfNotExists(rows)
              /\ boot' = "env_key"
              /\ Ev(0, <<"cursor", "execute", "commit", "close", "checkin">>)
         [] outcome = "cursor" ->
              /\ boot' = "crashed"
              /\ Ev(0, <<"cursor_failed", "checkin">>)
              /\ UNCHANGED <<schema, rows>>
         [] outcome = "execute" ->
              /\ boot' = "crashed"
              /\ Ev(0, <<"cursor", "execute_failed", "rollback", "close",
                         "checkin">>)
              /\ UNCHANGED <<schema, rows>>
  /\ PutConn(NewConn)
  /\ UNCHANGED <<openDocs, env, clock, running, pc, loc, resp, nextId, files>>

BootApiKeyUnchecked ==
  /\ boot = "env_key"
  /\ boot' = "serving"
  /\ UNCHANGED <<openDocs, env, clock, running, pc, loc, resp, pool, used, schema,
                 nextId, rows, files, log>>

\* openai.api_key = os.environ.get('OPENAI_API_KEY'); RuntimeError when unset
BootApiKey ==
  /\ boot = "env_key"
  /\ boot' = IF env.OPENAI_API_KEY THEN "serving" ELSE "crashed"
  /\ UNCHANGED <<openDocs, env, clock, running, pc, loc, resp, pool, used, schema,
                 nextId, rows, files, log>>

\* time passes
Tick ==
  /\ clock <= MaxClock
  /\ clock' = clock + 1
  /\ UNCHANGED <<openDocs, env, boot, running, pc, loc, resp, pool, used, schema,
                 nextId, rows, files, log>>


\* ------------------------------------------------------ request plumbing
Range(f) == {f[i] : i \in DOMAIN f}

\* The response leaves the handler, whose locals are dropped, and the event
\* loop is free again.  The response record also keeps what the request was
\* (kind, name, doc_id), the step that failed, the status of the exception
\* first raised, and the path the handler wrote to.
Finish(r, status, raised, fail, handled, body) ==
  /\ resp' = [resp EXCEPT ![r] =
                [kind |-> loc[r].kind, name |-> loc[r].name,
                 doc_id |-> loc[r].doc_id,
                 status |-> status, raised |-> raised, fail |-> fail,
                 handled |-> handled,
                 saved |-> IF loc[r].file_path \in DOMAIN files
                           THEN loc[r].file_path ELSE << >>,
                 body |-> body]]
  /\ loc' = [loc EXCEPT ![r] = NoLoc]
  /\ pc' = [pc EXCEPT ![r] = "done"]
  /\ running' = 0

\* a request arrives when the service is up and the loop is free
CanStart(r) ==
  /\ boot = "serving"
  /\ running = 0
  /\ pc[r] = "new"
  /\ IF r = 1 THEN TRUE ELSE pc[r - 1] # "new"

At(r, label) == running = r /\ pc[r] = label

Goto(r, label) == pc' = [pc EXCEPT ![r] = label]

\* conn.rollback()
Rollback(c) == [c EXCEPT !.pending = << >>]

CommittedNone(c) == {}

\* conn.commit(): the rows the transaction inserted become visible
Committed(c) == Range(c.pending)

\* ------------------------------------------------- POST /upload/ (229-309)
\* Every exception raised inside upload_pdf's outer try, HTTPException
\* included, reaches "except Exception" (308-309) and leaves the handler as
\* HTTPException(500); "raised" keeps the status of the first exception.
StartUploadWithConn(r, name) ==
  /\ CanStart(r)
  /\ GetConnMaySucceed
  /\ GetConnEffect
  /\ loc' = [loc EXCEPT ![r] =
               [NoLoc EXCEPT !.kind = "upload", !.name = name,
                             !.hasConn = TRUE, !.conn = GetConnResult]]
  /\ Goto(r, "u_check")
  /\ running' = r
  /\ Ev(r, <<"received", "checkout">>)
  /\ UNCHANGED <<openDocs, env, boot, clock, resp, schema, nextId, rows, files>>

StartUpload(r, name) ==
  /\ CanStart(r)
  /\ loc' = [loc EXCEPT ![r] =
               [NoLoc EXCEPT !.kind = "upload", !.name = name]]
  /\ Goto(r, "u_check")
  /\ running' = r
  /\ Ev(r, <<"received">>)
  /\ UNCHANGED <<openDocs, env, boot, clock, resp, pool, used, schema, nextId, rows,
                 files>>

UploadCheckAcceptAll(r) ==
  /\ At(r, "u_check")
  /\ loc' = [loc EXCEPT
               ![r].timestamp = Strftime(clock),
               ![r].filename = StoredName(Strftime(clock), loc[r].name),
               ![r].file_path =
                 PathJoin(UPLOAD_DIR,
                          StoredName(Strftime(clock), loc[r].name))]
  /\ Goto(r, "u_read")
  /\ running' = 0
  /\ Ev(r, <<"named">>)
  /\ UNCHANGED resp
  /\ UNCHANGED <<openDocs, env, boot, clock, pool, used, schema, nextId, rows, files>>

\* the extension test, the storage name, and the suspension at
\* "await file.read()"
UploadCheck(r) ==
  /\ At(r, "u_check")
  /\ IF ~IsPdf(loc[r].name)
     THEN /\ Finish(r, 500, 400, "extension", TRUE, NoBody)
          /\ Ev(r, <<"rejected">>)
     ELSE /\ loc' = [loc EXCEPT
                       ![r].timestamp = Strftime(clock),
                       ![r].filename =
                         StoredName(Strftime(clock), loc[r].name),
                       ![r].file_path =
                         PathJoin(UPLOAD_DIR,
                                  StoredName(Strftime(clock), loc[r].name))]
          /\ Goto(r, "u_read")
          /\ running' = 0
          /\ Ev(r, <<"named">>)
          /\ UNCHANGED resp
  /\ UNCHANGED <<openDocs, env, boot, clock, pool, used, schema, nextId, rows, files>>

\* contents = await file.read(): the handler takes the loop again
UploadRead(r) ==
  /\ running = 0
  /\ pc[r] = "u_read"
  /\ \/ \E pdf \in PdfInputs :
          /\ loc' = [loc EXCEPT ![r].contents = pdf]
          /\ Goto(r, "u_write")
          /\ running' = r
          /\ Ev(r, <<"read">>)
          /\ UNCHANGED resp
     \/ /\ Finish(r, 500, 0, "read", TRUE, NoBody)
        /\ Ev(r, <<"read_failed">>)
  /\ UNCHANGED <<openDocs, env, boot, clock, pool, used, schema, nextId, rows, files>>

\* with open(file_path, "wb") as f: f.write(contents)
UploadWrite(r) ==
  /\ At(r, "u_write")
  /\ \E ok \in BOOLEAN :
       IF ok
       THEN /\ files' = [p \in DOMAIN files \cup {loc[r].file_path} |->
                           IF p = loc[r].file_path
                           THEN loc[r].contents
                           ELSE files[p]]
            /\ Goto(r, "u_extract")
            /\ Ev(r, <<"saved">>)
            /\ UNCHANGED <<resp, running, loc>>
       ELSE /\ Finish(r, 500, 0, "write", TRUE, NoBody)
            /\ Ev(r, <<"write_failed">>)
            /\ UNCHANGED files
  /\ UNCHANGED <<openDocs, env, boot, clock, pool, used, schema, nextId, rows>>

\* text = extract_text_from_pdf(file_path).  fitz.open refuses bytes that
\* are no PDF; page.get_text() may raise on a page of a document that
\* opened.  doc.close() is the last statement of the try: it runs only when
\* every page was read, and the except clause does not close the document.
UploadExtract(r) ==
  /\ At(r, "u_extract")
  /\ IF files[loc[r].file_path].valid
     THEN \/ /\ loc' = [loc EXCEPT
                          ![r].text =
                            ExtractText(files[loc[r].file_path].pages)]
             /\ Goto(r, "u_analyze")
             /\ Ev(r, <<"opened", "closed", "extracted">>)
             /\ UNCHANGED <<resp, running, openDocs>>
          \/ /\ files[loc[r].file_path].pages # << >>
             /\ openDocs' = openDocs + 1
             /\ Finish(r, 500, 500, "extract_page", TRUE, NoBody)
             /\ Ev(r, <<"opened", "page_failed", "extract_failed">>)
     ELSE /\ Finish(r, 500, 500, "extract", TRUE, NoBody)
          /\ Ev(r, <<"open_failed", "extract_failed">>)
          /\ UNCHANGED openDocs
  /\ UNCHANGED <<env, boot, clock, pool, used, schema, nextId, rows, files>>

UploadAnalyzeKeepsError(r) ==
  /\ At(r, "u_analyze")
  /\ \/ \E a \in AnalysisTexts :
          /\ loc' = [loc EXCEPT ![r].analysis = a]
          /\ Goto(r, "u_getconn")
          /\ Ev(r, <<"analyzed">>)
          /\ UNCHANGED <<resp, running>>
     \/ /\ loc' = [loc EXCEPT ![r].analysis = <<"E", "r", "r">>]
        /\ Goto(r, "u_getconn")
        /\ Ev(r, <<"analysis_failed">>)
        /\ UNCHANGED <<resp, running>>
     \/ /\ Finish(r, 500, 0, "analysis_other", TRUE, NoBody)
        /\ Ev(r, <<"analysis_failed">>)
  /\ UNCHANGED <<openDocs, env, boot, clock, pool, used, schema, nextId, rows,
                 files>>

\* openai.chat.completions.create(...): an answer, an OpenAIError (re-raised
\* as HTTPException(400)), or another exception
UploadAnalyze(r) ==
  /\ At(r, "u_analyze")
  /\ \/ \E a \in AnalysisTexts :
          /\ loc' = [loc EXCEPT ![r].analysis = a]
          /\ Goto(r, "u_getconn")
          /\ Ev(r, <<"analyzed">>)
          /\ UNCHANGED <<resp, running>>
     \/ /\ Finish(r, 500, 400, "provider", TRUE, NoBody)
        /\ Ev(r, <<"analysis_failed">>)
     \/ /\ Finish(r, 500, 0, "analysis_other", TRUE, NoBody)
        /\ Ev(r, <<"analysis_failed">>)
  /\ UNCHANGED <<openDocs, env, boot, clock, pool, used, schema, nextId, rows, files>>

\* conn = get_db_connection()
UploadGetConn(r) ==
  /\ At(r, "u_getconn")
  /\ \E ok \in BOOLEAN :
       IF ok
       THEN /\ GetConnMaySucceed
            /\ GetConnEffect
            /\ loc' = [loc EXCEPT ![r].hasConn = TRUE,
                                  ![r].conn = GetConnResult]
            /\ Goto(r, "u_cursor")
            /\ Ev(r, <<"checkout">>)
            /\ UNCHANGED <<resp, running>>
       ELSE /\ GetConnMayFail
            /\ Finish(r, 500, 0, "getconn", TRUE, NoBody)
            /\ Ev(r, <<"getconn_failed">>)
            /\ UNCHANGED <<pool, used>>
  /\ UNCHANGED <<openDocs, env, boot, clock, schema, nextId, rows, files>>

\* cur = conn.cursor(): outside the inner try, so its exception goes
\* straight to the outer except and the finally clause never runs
UploadCursor(r) ==
  /\ At(r, "u_cursor")
  /\ \E ok \in BOOLEAN :
       IF ok
       THEN /\ loc' = [loc EXCEPT ![r].rowsBefore = rows]
            /\ Goto(r, "u_execute")
            /\ Ev(r, <<"cursor">>)
            /\ UNCHANGED <<resp, running>>
       ELSE /\ Finish(r, 500, 0, "cursor", TRUE, NoBody)
            /\ Ev(r, <<"cursor_failed">>)
  /\ UNCHANGED <<openDocs, env, boot, clock, pool, used, schema, nextId, rows, files>>

\* the row INSERT ... RETURNING id adds to the connection's transaction
NewRow(r) ==
  [id |-> nextId,
   filename |-> loc[r].filename,
   extracted_text |-> loc[r].text,
   asop_analysis |-> JsonbParse(JsonDumps(loc[r].analysis)),
   created_at |-> clock,
   by |-> r]

\* psycopg2.Error inside the inner try: conn.rollback(), HTTPException(500),
\* then the finally clause
UploadDbError(r, fail) ==
  /\ PutConn(Rollback(loc[r].conn))
  /\ Finish(r, 500, 500, fail, TRUE, NoBody)
  /\ Ev(r, <<fail, "rollback", "close", "checkin">>)

\* analysis_json = json.dumps(...); cur.execute("INSERT ... RETURNING id")
UploadExecute(r) ==
  /\ At(r, "u_execute")
  /\ \E ok \in BOOLEAN :
       IF ok /\ JsonbValid(JsonDumps(loc[r].analysis))
       THEN /\ loc' = [loc EXCEPT
                         ![r].conn.pending = Append(@, NewRow(r))]
            /\ nextId' = nextId + 1
            /\ Goto(r, "u_fetch")
            /\ Ev(r, <<"insert">>)
            /\ UNCHANGED <<resp, running, pool, used>>
       ELSE /\ UploadDbError(r, "execute_failed")
            /\ UNCHANGED nextId
  /\ UNCHANGED <<openDocs, env, boot, clock, schema, rows, files>>

\* upload_id = cur.fetchone()[0]: a missing row is a TypeError, which no
\* except clause of the inner try takes; only the finally clause runs
UploadFetch(r) ==
  /\ At(r, "u_fetch")
  /\ \E ok \in BOOLEAN :
       IF ok
       THEN /\ loc' = [loc EXCEPT
                         ![r].upload_id =
                           loc[r].conn.pending[Len(loc[r].conn.pending)].id]
            /\ Goto(r, "u_commit")
            /\ Ev(r, <<"fetched">>)
            /\ UNCHANGED <<resp, running, pool, used>>
       ELSE /\ PutConn(loc[r].conn)
            /\ Finish(r, 500, 0, "fetch_failed", TRUE, NoBody)
            /\ Ev(r, <<"fetch_failed", "close", "checkin">>)
  /\ UNCHANGED <<openDocs, env, boot, clock, schema, nextId, rows, files>>

\* conn.commit()
UploadCommit(r) ==
  /\ At(r, "u_commit")
  /\ \E ok \in BOOLEAN :
       IF ok
       THEN /\ rows' = rows \cup Committed(loc[r].conn)
            /\ loc' = [loc EXCEPT ![r].conn.pending = << >>]
            /\ Goto(r, "u_release")
            /\ Ev(r, <<"commit">>)
            /\ UNCHANGED <<resp, running, pool, used>>
       ELSE /\ rows' = rows
            /\ UploadDbError(r, "commit_failed")
  /\ UNCHANGED <<openDocs, env, boot, clock, schema, nextId, files>>

\* finally: cur.close(); release_db_connection(conn)
UploadRelease(r) ==
  /\ At(r, "u_release")
  /\ PutConn(loc[r].conn)
  /\ Goto(r, "u_return")
  /\ Ev(r, <<"close", "checkin">>)
  /\ UNCHANGED <<openDocs, env, boot, clock, running, loc, resp, schema, nextId, rows,
                 files>>

\* return {"message": ..., "id": upload_id, ...}
UploadReturn(r) ==
  /\ At(r, "u_return")
  /\ Finish(r, 200, 0, "", TRUE,
            [NoBody EXCEPT
               !.message = "File uploaded and analyzed successfully",
               !.id = loc[r].upload_id,
               !.filename = loc[r].filename,
               !.path = loc[r].file_path,
               !.extracted_text = loc[r].text,
               !.asop_analysis = loc[r].analysis])
  /\ Ev(r, <<"returned">>)
  /\ UNCHANGED <<openDocs, env, boot, clock, pool, used, schema, nextId, rows, files>>


\* ---------------------------------------------- GET /documents/ (311-332)
\* get_documents and get_document have no except clause: an exception
\* leaves the handler unhandled and the framework answers 500.
Orderings(S) ==
  {f \in [1..Cardinality(S) -> S] : \A i, j \in DOMAIN f : i # j => f[i] # f[j]}

OrderByCreatedAtAsc(S) ==
  {f \in Orderings(S) :
     \A i \in 1..(Len(f) - 1) : f[i].created_at <= f[i + 1].created_at}

\* ORDER BY created_at DESC: rows of equal created_at come in any order
OrderByCreatedAtDesc(S) ==
  {f \in Orderings(S) :
     \A i \in 1..(Len(f) - 1) : f[i].created_at >= f[i + 1].created_at}

\* SELECT id, filename, created_at
ListColumns(row) ==
  [id |-> row.id, filename |-> row.filename, created_at |-> row.created_at]

\* SELECT *
AllColumns(row) ==
  [id |-> row.id, filename |-> row.filename,
   extracted_text |-> row.extracted_text,
   asop_analysis |-> row.asop_analysis, created_at |-> row.created_at]

StartList(r) ==
  /\ CanStart(r)
  /\ loc' = [loc EXCEPT ![r] = [NoLoc EXCEPT !.kind = "list"]]
  /\ Goto(r, "l_getconn")
  /\ running' = r
  /\ Ev(r, <<"received">>)
  /\ UNCHANGED <<openDocs, env, boot, clock, resp, pool, used, schema, nextId, rows,
                 files>>

\* conn = get_db_connection() of get_documents and of get_document
ReadGetConn(r, here, next) ==
  /\ At(r, here)
  /\ \E ok \in BOOLEAN :
       IF ok
       THEN /\ GetConnMaySucceed
            /\ GetConnEffect
            /\ loc' = [loc EXCEPT ![r].hasConn = TRUE,
                                  ![r].conn = GetConnResult]
            /\ Goto(r, next)
            /\ Ev(r, <<"checkout">>)
            /\ UNCHANGED <<resp, running>>
       ELSE /\ GetConnMayFail
            /\ Finish(r, 500, 0, "getconn", FALSE, NoBody)
            /\ Ev(r, <<"getconn_failed">>)
            /\ UNCHANGED <<pool, used>>
  /\ UNCHANGED <<openDocs, env, boot, clock, schema, nextId, rows, files>>

\* cur = conn.cursor(cursor_factory=RealDictCursor): before the try, so
\* its exception skips the finally clause
ReadCursor(r, here, next) ==
  /\ At(r, here)
  /\ \E ok \in BOOLEAN :
       IF ok
       THEN /\ Goto(r, next)
            /\ Ev(r, <<"cursor">>)
            /\ UNCHANGED <<resp, running, loc>>
       ELSE /\ Finish(r, 500, 0, "cursor", FALSE, NoBody)
            /\ Ev(r, <<"cursor_failed">>)
  /\ UNCHANGED <<openDocs, env, boot, clock, pool, used, schema, nextId, rows, files>>

ListGetConn(r) == ReadGetConn(r, "l_getconn", "l_cursor")

ListCursor(r) == ReadCursor(r, "l_cursor", "l_query")

\* the try ... finally of get_documents
ListQuery(r) ==
  /\ At(r, "l_query")
  /\ \/ \E docs \in OrderByCreatedAtDesc(rows) :
          /\ Finish(r, 200, 0, "", TRUE,
                    [NoBody EXCEPT
                       !.documents =
                         [i \in 1..Len(docs) |-> ListColumns(docs[i])]])
          /\ Ev(r, <<"execute", "fetched", "close", "checkin">>)
     \/ /\ Finish(r, 500, 0, "execute_failed", FALSE, NoBody)
        /\ Ev(r, <<"execute_failed", "close", "checkin">>)
  /\ PutConn(loc[r].conn)
  /\ UNCHANGED <<openDocs, env, boot, clock, schema, nextId, rows, files>>

\* --------------------------------------- GET /documents/{doc_id} (334-357)
StartGet(r, doc_id) ==
  /\ CanStart(r)
  /\ loc' = [loc EXCEPT
               ![r] = [NoLoc EXCEPT !.kind = "get", !.doc_id = doc_id]]
  /\ Goto(r, "g_getconn")
  /\ running' = r
  /\ Ev(r, <<"received">>)
  /\ UNCHANGED <<openDocs, env, boot, clock, resp, pool, used, schema, nextId, rows,
                 files>>

GetGetConn(r) == ReadGetConn(r, "g_getconn", "g_cursor")

GetCursor(r) == ReadCursor(r, "g_cursor", "g_query")

SelectByAnyId(doc_id) == rows

\* SELECT * FROM uploads WHERE id = %s
SelectById(doc_id) == {row \in rows : row.id = doc_id}

\* the try ... finally of get_document
GetQuery(r) ==
  /\ At(r, "g_query")
  /\ \/ /\ SelectById(loc[r].doc_id) = {}
        /\ Finish(r, 404, 404, "Document not found", TRUE, NoBody)
        /\ Ev(r, <<"execute", "fetched", "not_found", "close", "checkin">>)
     \/ \E row \in SelectById(loc[r].doc_id) :
          /\ Finish(r, 200, 0, "", TRUE,
                    [NoBody EXCEPT !.document = AllColumns(row)])
          /\ Ev(r, <<"execute", "fetched", "close", "checkin">>)
     \/ /\ Finish(r, 500, 0, "execute_failed", FALSE, NoBody)
        /\ Ev(r, <<"execute_failed", "close", "checkin">>)
  /\ PutConn(loc[r].conn)
  /\ UNCHANGED <<openDocs, env, boot, clock, schema, nextId, rows, files>>

\* ------------------------------------------------ POST /analyze (198-227)
\* What openai.chat.completions.create may raise: the service refuses the
\* request (APIStatusError), the network fails (APIConnectionError), or
\* something that is no error of the client library (for example an empty
\* choices list read by choices[0]).
CompletionErrors == {"provider", "transport", "other"}

\* isinstance(e, openai.OpenAIError): the library derives both its status
\* errors and its connection errors from OpenAIError
IsOpenAIError(e) == e \in {"provider", "transport"}

StartAnalyze(r) ==
  /\ CanStart(r)
  /\ loc' = [loc EXCEPT ![r] = [NoLoc EXCEPT !.kind = "analyze"]]
  /\ Goto(r, "a_call")
  /\ running' = r
  /\ Ev(r, <<"received">>)
  /\ UNCHANGED <<openDocs, env, boot, clock, resp, pool, used, schema, nextId,
                 rows, files>>

\* the try of analyze_memo: the answer, "except openai.OpenAIError" (400)
\* or "except Exception" (500).  The call is synchronous: the handler keeps
\* the event loop until the call returns.
AnalyzeCall(r) ==
  /\ At(r, "a_call")
  /\ \/ \E a \in AnalysisTexts :
          /\ Finish(r, 200, 0, "", TRUE, [NoBody EXCEPT !.analysis = a])
          /\ Ev(r, <<"analyzed", "returned">>)
     \/ \E e \in CompletionErrors :
          /\ IF IsOpenAIError(e)
             THEN Finish(r, 400, 400, e, TRUE, NoBody)
             ELSE Finish(r, 500, 500, e, TRUE, NoBody)
          /\ Ev(r, <<"analysis_failed">>)
  /\ UNCHANGED <<openDocs, env, boot, clock, pool, used, schema, nextId, rows,
                 files>>

\* ---------------------------------------------------- GET /health (193-196)
\* health_check returns at once: it never holds the loop across a step
HealthCheck(r) ==
  /\ CanStart(r)
  /\ resp' = [resp EXCEPT ![r] =
                [NoResp EXCEPT
                   !.kind = "health", !.status = 200,
                   !.body = [NoBody EXCEPT !.health = "healthy"]]]
  /\ pc' = [pc EXCEPT ![r] = "done"]
  /\ Ev(r, <<"received", "returned">>)
  /\ UNCHANGED <<openDocs, env, boot, clock, running, loc, pool, used, schema,
                 nextId, rows, files>>

\* ------------------------------------------------------------------ Next
Next ==
  \/ BootDatabaseUrl
  \/ BootPool
  \/ InitDbConnect
  \/ InitDbCreate
  \/ BootApiKey
  \/ Tick
  \/ \E r \in Req :
       \/ \E name \in FileNames : StartUpload(r, name)
       \/ UploadCheck(r)
       \/ UploadRead(r)
       \/ UploadWrite(r)
       \/ UploadExtract(r)
       \/ UploadAnalyze(r)
       \/ UploadGetConn(r)
       \/ UploadCursor(r)
       \/ UploadExecute(r)
       \/ UploadFetch(r)
       \/ UploadCommit(r)
       \/ UploadRelease(r)
       \/ UploadReturn(r)
       \/ StartList(r)
       \/ ListGetConn(r)
       \/ ListCursor(r)
       \/ ListQuery(r)
       \/ \E doc_id \in DocIds : StartGet(r, doc_id)
       \/ GetGetConn(r)
       \/ GetCursor(r)
       \/ GetQuery(r)
       \/ StartAnalyze(r)
       \/ AnalyzeCall(r)
       \/ HealthCheck(r)

Spec == Init /\ [][Next]_vars


\* ============================================================= properties
Done(r) == pc[r] = "done"

InFlight(r) == pc[r] \notin {"new", "done"}

Count(seq, e) == Cardinality({i \in DOMAIN seq : seq[i] = e})

RowsBy(r) == {row \in rows : row.by = r}

UploadSucceeded(r) ==
  /\ Done(r)
  /\ resp[r].kind = "upload"
  /\ resp[r].status = 200

\* the accepted extension, stated on the characters of the name
HasAcceptedExtension(name) ==
  /\ Len(name) >= 4
  /\ name[Len(name) - 3] = "."
  /\ name[Len(name) - 2] \in {"p", "P"}
  /\ name[Len(name) - 1] \in {"d", "D"}
  /\ name[Len(name)] \in {"f", "F"}

RejectedUpload(l) == l.kind = "upload" /\ ~HasAcceptedExtension(l.name)

InsertFailures == {"execute_failed", "fetch_failed", "commit_failed"}

ReadFailures == {"getconn", "cursor", "execute_failed"}

\* C1: once no operation is in flight, no pool connection is checked out,
\* and every handler that has ended checked in exactly as often as it
\* checked out.
C1_PoolQuiescent ==
  ((\A r \in Req : ~InFlight(r)) /\ boot # "init_db_conn")
    => /\ used = 0
       /\ \A r \in 0..MaxReq :
            Count(log[r], "checkout") = Count(log[r], "checkin")

\* C2: an upload whose filename lacks the accepted extension takes no step
\* that changes the content area, the store or the pool, and its check
\* ends it.
C2_RejectedUploadChangesNothing ==
  [][\A r \in Req :
       (pc'[r] # pc[r] /\ (RejectedUpload(loc[r]) \/ RejectedUpload(loc'[r])))
         => /\ files' = files
            /\ rows' = rows
            /\ nextId' = nextId
            /\ pool' = pool
            /\ used' = used
            /\ Count(log'[r], "checkout") = 0
            /\ Count(log'[r], "saved") = 0
            /\ pc[r] = "u_check" => pc'[r] = "done"]_vars

C2_Witness ==
  \E r, u \in Req :
    /\ Done(r)
    /\ resp[r].kind = "upload"
    /\ resp[r].name = <<"n", "p", "d", "f">>
    /\ UploadSucceeded(u)
    /\ u < r
    /\ rows # {}
    /\ DOMAIN files # {}

\* C3: the client of an upload whose filename lacks the accepted extension
\* observes status 400.
C3_RejectedUploadAnswers400 ==
  \A r \in Req :
    (Done(r) /\ resp[r].kind = "upload" /\ ~HasAcceptedExtension(resp[r].name))
      => resp[r].status = 400

\* C4: an upload that returned the success response committed exactly one
\* row, and the id of the response is the id of that row and of no other.
C4_SuccessOneRow ==
  \A r \in Req :
    UploadSucceeded(r)
      => /\ Cardinality(RowsBy(r)) = 1
         /\ \A row \in RowsBy(r) : row.id = resp[r].body.id
         /\ \A row \in rows : row.id = resp[r].body.id => row.by = r

C4_Witness ==
  \E r, u \in Req :
    /\ r # u
    /\ UploadSucceeded(r)
    /\ UploadSucceeded(u)
    /\ resp[r].body.id # resp[u].body.id
    /\ Cardinality(rows) >= 2

\* C5: two distinct successful uploads never have the same stored filename.
C5_StoredFilenamesDiffer ==
  \A r, u \in Req :
    (r # u /\ UploadSucceeded(r) /\ UploadSucceeded(u))
      => resp[r].body.filename # resp[u].body.filename

\* C6: an upload whose completion call raised a provider error ends either
\* with no row and status 400, or with a row and status 200.
C6_ProviderErrorOutcome ==
  \A r \in Req :
    (Done(r) /\ resp[r].kind = "upload" /\ resp[r].fail = "provider")
      => \/ RowsBy(r) = {} /\ resp[r].status = 400
         \/ RowsBy(r) # {} /\ resp[r].status = 200

C8_RoundTrip ==
  [][\A g, u \in Req :
       (/\ pc[g] = "g_query"
        /\ pc'[g] = "done"
        /\ resp'[g].fail \notin ReadFailures
        /\ UploadSucceeded(u)
        /\ loc[g].doc_id = resp[u].body.id)
         => /\ resp'[g].status = 200
            /\ resp'[g].body.document.id = resp[u].body.id
            /\ resp'[g].body.document.filename = resp[u].body.filename
            /\ resp'[g].body.document.extracted_text
                 = resp[u].body.extracted_text
            /\ resp'[g].body.document.asop_analysis
                 = [analysis |-> resp[u].body.asop_analysis]]_vars

C8_Witness ==
  \E g, u \in Req :
    /\ u < g
    /\ PriorRow \in rows
    /\ UploadSucceeded(u)
    /\ resp[u].body.asop_analysis = <<"O", "\"", "\\">>
    /\ resp[u].body.extracted_text = <<"H", "i", "\n", "W", "\n">>
    /\ Done(g)
    /\ resp[g].kind = "get"
    /\ resp[g].status = 200
    /\ resp[g].body.document.id = resp[u].body.id
    /\ resp[g].body.document.asop_analysis.analysis = <<"O", "\"", "\\">>

\* C9: a list-documents that answers returns every stored record once, each
\* with id, filename and created_at only, and created_at never increases
\* along the returned sequence.
C9_ListNewestFirst ==
  [][\A r \in Req :
       (pc[r] = "l_query" /\ pc'[r] = "done" /\ resp'[r].status = 200)
         => LET d == resp'[r].body.documents
            IN  /\ Len(d) = Cardinality(rows)
                /\ {d[i] : i \in DOMAIN d}
                     = {[id |-> row.id, filename |-> row.filename,
                         created_at |-> row.created_at] : row \in rows}
                /\ \A i \in 1..(Len(d) - 1) :
                     d[i].created_at >= d[i + 1].created_at]_vars

C9_Witness ==
  \E r \in Req :
    /\ Done(r)
    /\ resp[r].kind = "list"
    /\ resp[r].status = 200
    /\ Len(resp[r].body.documents) = 2
    /\ resp[r].body.documents[1].created_at
         > resp[r].body.documents[2].created_at
    /\ resp[r].body.documents[1].id > resp[r].body.documents[2].id

\* C10: when the insert step of an upload fails (statement error, missing
\* returned id, commit error) the store is what it was before the step, the
\* status is 500 and the saved file is in the content area; afterwards the
\* store never holds a row of that upload and the file stays.
C10_InsertFailureLeavesNoRow ==
  [][\A r \in Req :
       /\ (pc[r] \in {"u_execute", "u_fetch", "u_commit"} /\ pc'[r] = "done")
            => /\ resp'[r].fail \in InsertFailures
               /\ rows' = loc[r].rowsBefore
               /\ resp'[r].status = 500
               /\ loc[r].file_path \in DOMAIN files'
               /\ resp'[r].saved = loc[r].file_path
       /\ (Done(r) /\ resp[r].kind = "upload"
             /\ resp[r].fail \in InsertFailures)
            => /\ \A row \in rows' : row.by # r
               /\ resp[r].saved \in DOMAIN files']_vars

C10_Witness ==
  \E a, b \in Req :
    /\ a < b
    /\ Done(a)
    /\ resp[a].kind = "upload"
    /\ resp[a].fail = "fetch_failed"
    /\ resp[a].status = 500
    /\ resp[a].saved \in DOMAIN files
    /\ RowsBy(a) = {}
    /\ UploadSucceeded(b)
    /\ Cardinality(RowsBy(b)) = 1


\* C11 as stated: POST /analyze answers 200 with the completion's text, 400
\* when the completion service refuses the request, and 500 on every other
\* failure, a transport failure of the call included.
C11_AnalyzeStatuses ==
  \A r \in Req :
    (Done(r) /\ resp[r].kind = "analyze")
      => /\ resp[r].fail = "" =>
              resp[r].status = 200 /\ resp[r].body.analysis \in AnalysisTexts
         /\ resp[r].fail = "provider" => resp[r].status = 400
         /\ resp[r].fail \notin {"", "provider"} => resp[r].status = 500


\* C12: in a run in which DATABASE_URL or OPENAI_API_KEY is not set the
\* start-up code never reaches the point where requests are served, and no
\* request is started or answered; without DATABASE_URL it ends at the first
\* check.
C12_NoServiceWithoutCredentials ==
  /\ (~env.DATABASE_URL \/ ~env.OPENAI_API_KEY)
       => /\ boot # "serving"
          /\ \A r \in Req :
               pc[r] = "new" /\ log[r] = << >> /\ resp[r] = NoResp
  /\ ~env.DATABASE_URL => boot \in {"env_db", "crashed"} /\ pool = << >>

C12_Witness ==
  /\ env.DATABASE_URL
  /\ ~env.OPENAI_API_KEY
  /\ boot = "crashed"
  /\ schema
  /\ pool # << >>
  /\ Count(log[0], "commit") = 1

\* C13: no step removes or changes a stored record: a row of the store is a
\* row of the store after every step, and the only row with its id.
C13_AppendOnly ==
  [][\A row \in rows :
       /\ row \in rows'
       /\ \A other \in rows' : other.id = row.id => other = row]_vars

C13_Witness ==
  /\ PriorRow \in rows
  /\ Cardinality(rows) = 2
  /\ \A r \in Req : Done(r)
  /\ \E r \in Req : resp[r].kind = "analyze"


UploadOrder ==
  <<"u_check", "u_read", "u_write", "u_extract", "u_analyze", "u_getconn",
    "u_cursor", "u_execute", "u_fetch", "u_commit", "u_release", "u_return">>

StepOf(label) == CHOOSE i \in DOMAIN UploadOrder : UploadOrder[i] = label

IsUpload(r) == loc[r].kind = "upload" \/ resp[r].kind = "upload"

Happened(r, e) == \E i \in DOMAIN log[r] : log[r][i] = e

\* the events that record the outcome of each step an upload attempts
StepEvents(step) ==
  CASE step = "save" -> {"saved", "write_failed"}
    [] step = "extract" -> {"extracted", "extract_failed"}
    [] step = "analyze" -> {"analyzed", "analysis_failed"}
    [] step = "persist" -> {"insert", "execute_failed"}

\* the event that records the success of the step before
SuccessBefore(step) ==
  CASE step = "save" -> "read"
    [] step = "extract" -> "saved"
    [] step = "analyze" -> "extracted"
    [] step = "persist" -> "analyzed"

FailureEvents ==
  {"rejected", "read_failed", "write_failed", "extract_failed",
   "analysis_failed", "getconn_failed", "cursor_failed", "execute_failed",
   "fetch_failed", "commit_failed"}

\* C14: an upload moves through its steps in the one order, never back and
\* never twice; the end of the handler is final; a step is attempted only
\* when the step before it succeeded and was not attempted before; every
\* failure ends the handler, so that nothing follows a rejection, no
\* completion call or insert follows a failed extraction, and no insert
\* follows a failed analysis.
C14_LinearPipeline ==
  [][\A r \in Req :
       /\ pc[r] = "done" => (pc'[r] = "done" /\ log'[r] = log[r])
       /\ (pc[r] \in Range(UploadOrder) /\ pc'[r] # pc[r])
            => LET new == SubSeq(log'[r], Len(log[r]) + 1, Len(log'[r]))
               IN  /\ \/ pc'[r] = "done"
                      \/ /\ pc'[r] \in Range(UploadOrder)
                         /\ StepOf(pc'[r]) = StepOf(pc[r]) + 1
                   /\ \A k \in DOMAIN new :
                        /\ new[k] \in FailureEvents => pc'[r] = "done"
                        /\ new[k] = "checkout" => Happened(r, "analyzed")
                        /\ \A step \in {"save", "extract", "analyze", "persist"} :
                             new[k] \in StepEvents(step)
                               => /\ Happened(r, SuccessBefore(step))
                                  /\ \A i \in DOMAIN log[r] :
                                       log[r][i] \notin StepEvents(step)
                   /\ (pc'[r] = "done" /\ resp'[r].status = 200)
                        => Happened(r, "commit") /\ pc[r] = "u_return"]_vars

C14_Witness ==
  \E a, b \in Req :
    /\ Done(a) /\ resp[a].kind = "upload" /\ resp[a].fail = "extract"
    /\ Done(b) /\ resp[b].kind = "upload" /\ resp[b].fail = "provider"
    /\ Happened(a, "saved")
    /\ Happened(b, "extracted")
    /\ rows \subseteq {PriorRow}


DbFailures ==
  {"cursor_failed", "execute_failed", "fetch_failed", "commit_failed"}

\* C15: in init_db and in every handler, a connection that is checked in
\* after a step failed on it was rolled back by the operation before the
\* checkin, whatever the failure was.
C15_RollbackBeforeRelease ==
  \A r \in 0..MaxReq :
    \A k \in DOMAIN log[r] :
      (/\ log[r][k] = "checkin"
       /\ \E j \in 1..(k - 1) : log[r][j] \in DbFailures)
        => \E i \in 1..(k - 1) : log[r][i] = "rollback"


\* C16: every document that text extraction opened is closed once the
\* extraction has returned or failed.
C16_DocumentHandleReleased ==
  /\ openDocs = 0
  /\ \A r \in Req : Count(log[r], "opened") = Count(log[r], "closed")

\* the steps in which a handler sits in a blocking call: the file write, the
\* completion call, a database call
BlockingSteps ==
  {"u_write", "u_analyze", "a_call", "u_getconn", "u_execute", "u_commit",
   "l_getconn", "l_query", "g_getconn", "g_query"}

\* C17: while a request sits in the completion call, in file I/O or in a
\* database call, the request that arrives next can be served.
C17_OthersNotBlocked ==
  \A r, o \in Req :
    (/\ boot = "serving"
     /\ running = r
     /\ pc[r] \in BlockingSteps
     /\ pc[o] = "new"
     /\ \A q \in 1..(o - 1) : pc[q] # "new")
      => ENABLED HealthCheck(o)

BeforePersist == {"u_check", "u_read", "u_write", "u_extract", "u_analyze"}

EarlyFailures ==
  {"extension", "read", "write", "extract", "extract_page", "provider",
   "analysis_other"}

\* C18: an upload holds no pool connection while it checks the name, reads
\* and saves the file, extracts the text or waits for the completion; it
\* checks one out only after the analysis succeeded, and an upload that is
\* rejected or fails before that never checks one out.
C18_NoConnectionBeforePersist ==
  \A r \in Req :
    IsUpload(r)
      => /\ pc[r] \in BeforePersist
              => /\ ~loc[r].hasConn
                 /\ ~Happened(r, "checkout")
                 /\ ~Happened(r, "getconn_failed")
         /\ \A k \in DOMAIN log[r] :
              log[r][k] = "checkout"
                => \E j \in 1..(k - 1) : log[r][j] = "analyzed"
         /\ (Done(r) /\ resp[r].fail \in EarlyFailures)
              => ~Happened(r, "checkout") /\ ~Happened(r, "getconn_failed")

C18_Witness ==
  \E r, f \in Req :
    /\ pc[r] = "u_analyze"
    /\ running = r
    /\ ~loc[r].hasConn
    /\ loc[r].file_path \in DOMAIN files
    /\ used = 0
    /\ Len(pool) = minconn
    /\ Done(f)
    /\ resp[f].kind = "upload"
    /\ resp[f].fail = "provider"
    /\ ~Happened(f, "checkout")

\* C19: the file at the path a successful upload returned holds the bytes
\* that upload's text was extracted from.
C19_FileHoldsUploadBytes ==
  \A u \in Req :
    UploadSucceeded(u)
      => /\ resp[u].body.path \in DOMAIN files
         /\ files[resp[u].body.path].valid
         /\ ExtractText(files[resp[u].body.path].pages)
              = resp[u].body.extracted_text

====
